---------------------------- MODULE Spec2Model ----------------------------
(***************************************************************************)
(* A model of src/src/dataset.py: the corpus loader                        *)
(* (Dataset.get_alignment_texts with Dataset.extract_info_from_article)    *)
(* and the embedding acquirer (Dataset.get_embeddings).                    *)
(*                                                                         *)
(* Python values are tagged records [type, val]: type is "null" (None),    *)
(* "str" or "list".  A corpus record (a dict) is a TLA+ record whose       *)
(* DOMAIN is the set of keys the dict holds.  Python indices 0..N-1 are    *)
(* kept for the futures and the rows of the matrix.                        *)
(***************************************************************************)
EXTENDS Integers, Sequences, FiniteSets, TLC

VARIABLES
    \* ---- input and configuration of one Dataset
    record,                \* the record the reader yielded last (an index into EntryKinds; 0: none yet)
    custom_sources,        \* self.custom_sources (None or a list)
    fraction,              \* self.fraction_of_articles_to_use, in percent
    rate_limit_per_minute, \* self.rate_limit_per_minute
    max_workers,           \* threads of the ThreadPoolExecutor of line 204 (set by the machine)
    \* ---- get_alignment_texts
    pos,                   \* records read from the reader so far
    status,                \* "running", "done" (returned) or "aborted" (uncaught exception)
    articles_count,        \* self.articles_count (keys that exist -> count)
    total_articles_count,
    total_char_count,
    total_word_count,
    total_sentence_count,
    total_block_count,
    metadata,              \* self.metadata
    embedding_strings,     \* self.embedding_strings
    signature,             \* the local `signature` of the last record that reached line 166
    error_count_dict,      \* the module-level error tally
    \* ---- get_embeddings
    embeddings,            \* self.embeddings: [set |-> FALSE] before line 202, then the matrix
    futures,               \* future i: its state and (index, embedding) result
    tpc,                   \* task i: position of get_embedding_at_index in its worker
    attempts,              \* task i: attempts made so far by the retry wrapper
    waited,                \* task i: time its worker waited since its previous request (microseconds)
    requests,              \* task i: requests sent to the embedding service so far
    order,                 \* the futures as_completed has yielded, in that order
    num_completed,
    mpc                    \* the caller: "idle", "collect", "shutdown", "returned", "raised"

loadVars == <<record, pos, status, articles_count, total_articles_count, total_char_count,
              total_word_count, total_sentence_count, total_block_count, metadata,
              signature, error_count_dict>>
embedVars == <<embeddings, futures, tpc, attempts, waited, requests, order,
               num_completed, mpc>>
confVars == <<custom_sources, fraction, rate_limit_per_minute, max_workers>>
vars == <<confVars, loadVars, embedding_strings, embedVars>>

\* ------------------------------------------------------------------ bounds
\* Longest corpus file read in one pass (in records).
MaxRecords == 2
\* max_tokens_per_block of the block splitter, scaled down (tokens are words).
MaxTokens == 3
\* Most blocks handed to get_embeddings.
MaxBlocks == 2
\* Most threads of the ThreadPoolExecutor.
MaxWorkers == 2

\* ------------------------------------------------------------ Python values
None == [type |-> "null", val |-> ""]
Str(s) == [type |-> "str", val |-> s]
List(items) == [type |-> "list", val |-> items]

\* bool(v)
Truthy(v) ==
    CASE v.type = "null" -> FALSE
      [] v.type = "str" -> v.val # ""
      [] v.type = "list" -> Len(v.val) > 0

\* v == s for a str literal s
PyEq(v, s) == v.type = "str" /\ v.val = s

Min(a, b) == IF a < b THEN a ELSE b

\* s[:n]
Prefix(s, n) == SubSeq(s, 1, Min(n, Len(s)))

\* if s[-1] == '\n': s = s[:-1]
StripNL(s) ==
    IF SubSeq(s, Len(s), Len(s)) = "\n" THEN SubSeq(s, 1, Len(s) - 1) ELSE s

IsSpace(c) == c \in {" ", "\n", "\t"}

\* len(text.split()): the maximal runs of non-whitespace characters
RECURSIVE WordsFrom(_, _, _)
WordsFrom(s, i, inWord) ==
    IF i > Len(s) THEN 0
    ELSE LET c == SubSeq(s, i, i)
         IN  IF IsSpace(c) THEN WordsFrom(s, i + 1, FALSE)
             ELSE (IF inWord THEN 0 ELSE 1) + WordsFrom(s, i + 1, TRUE)
WordCount(s) == WordsFrom(s, 1, FALSE)


\* ----------------- text_splitter: split_into_sentences and TokenSplitter.split,
\* as their contract describes them (sentences, then blocks of whole sentences)
IsTerminator(c) == c \in {".", "!", "?"}

\* split_into_sentences(text): sentences end at a terminator; a text without one
\* is a single sentence; whitespace between sentences is dropped.
RECURSIVE SentencesFrom(_, _, _)
SentencesFrom(s, i, start) ==
    IF i > Len(s)
    THEN IF start <= Len(s) THEN <<SubSeq(s, start, Len(s))>> ELSE <<>>
    ELSE LET c == SubSeq(s, i, i)
         IN  IF start = i /\ IsSpace(c) THEN SentencesFrom(s, i + 1, i + 1)
             ELSE IF IsTerminator(c)
                  THEN <<SubSeq(s, start, i)>> \o SentencesFrom(s, i + 1, i + 1)
                  ELSE SentencesFrom(s, i + 1, start)
split_into_sentences(text) == SentencesFrom(text, 1, 1)

\* The separator between the signature and a block's body.
Separator == "\n"

\* TokenSplitter.split(text, signature): sentences are accumulated into the running
\* block until the next one would exceed the budget; a sentence is never cut; the
\* last block is emitted whatever its size; each block is prefixed by the signature.
RECURSIVE SplitFrom(_, _, _, _)
SplitFrom(sents, i, cur, signat) ==
    IF i > Len(sents)
    THEN IF cur = "" THEN <<>> ELSE <<signat \o Separator \o cur>>
    ELSE IF cur # "" /\ WordCount(cur) + WordCount(sents[i]) > MaxTokens
         THEN <<signat \o Separator \o cur>> \o SplitFrom(sents, i + 1, sents[i], signat)
         ELSE SplitFrom(sents, i + 1,
                        IF cur = "" THEN sents[i] ELSE cur \o " " \o sents[i], signat)
TokenSplitter_split(text, signat) == SplitFrom(split_into_sentences(text), 1, "", signat)

\* --------------------------------------------------------- the corpus records
\* Records with every provenance key present, each one a str or None: the 16
\* combinations of title / author / date_published / url.
SigEntry(k) ==
    [source |-> Str("lesswrong"),
     title |-> IF k % 2 = 1 THEN Str("On AI\n") ELSE None,
     author |-> IF (k \div 2) % 2 = 1 THEN Str("Ann") ELSE None,
     date_published |-> IF (k \div 4) % 2 = 1 THEN Str("2023-01-02T10:00:00Z") ELSE None,
     url |-> IF (k \div 8) % 2 = 1 THEN Str("https://x.org/p") ELSE None,
     tags |-> Str("ai, safety"),
     text |-> Str("A b. C d e. F")]
SigEntries == [k \in 1..16 |-> SigEntry(k - 1)]

\* Records of other shapes: keys absent, null or of the wrong shape.
OtherEntries == <<
    \* source present, text absent
    [source |-> Str("lesswrong"), title |-> Str("No body")],
    \* source present, text empty
    [source |-> Str("arxiv"), title |-> Str("Empty"), text |-> Str("")],
    \* no source, url is null
    [url |-> None, text |-> Str("Some text.")],
    \* no source, the fallback urls
    [url |-> Str("https://www.cold-takes.com/"), title |-> Str("Cold"), text |-> Str("Hi. Yo yo yo.")],
    [url |-> Str("https://generative.ink/posts/"), text |-> Str("Loom")],
    [url |-> Str("https://greaterwrong.com/posts/1"), text |-> Str("Gw post!")],
    [article_url |-> Str("https://www.gwern.net"), text |-> Str("Essay")],
    \* no source, question and answer
    [question |-> Str("Q?"), answer |-> Str("A."), text |-> Str("Q? A.")],
    \* no source, nothing a fallback rule knows
    [title |-> Str("Orphan"), text |-> Str("Lost.")],
    [url |-> Str("https://example.org"), text |-> Str("Elsewhere.")],
    \* tags: a list of items with 'term', and one without
    [source |-> Str("arxiv"), tags |-> List(<<[term |-> "ml"], [term |-> "rl"]>>),
     title |-> Str("\n"), authors |-> Str("Bo, Cy"), published |-> Str("Mon, 02 Jan 2023 10:00"),
     link |-> Str("https://arxiv.org/abs/1"), text |-> Str("Abstract.")],
    [source |-> Str("arxiv"), tags |-> List(<<[label |-> "ml"]>>), text |-> Str("Abstract.")],
    \* book_title without title, doi, a short date
    [source |-> Str("ebook"), book_title |-> Str("Book\n"), doi |-> Str("10.1/x"),
     date_published |-> Str("2023"), text |-> Str("Chapter one")],
    \* title and book_title both present
    [source |-> Str("ebook"), title |-> Str("Both\n"), book_title |-> Str("Book"),
     author |-> Str("Di"), authors |-> Str("Di, Ed"), text |-> Str("Page")]
>>
EntryKinds == SigEntries \o OtherEntries
Entry(k) == EntryKinds[k]
Has(entry, key) == key \in DOMAIN entry


\* ---------------------------------------------------- extract_info_from_article
RECURSIVE Join(_, _)
Join(strs, sep) ==
    IF Len(strs) = 0 THEN ""
    ELSE IF Len(strs) = 1 THEN strs[1]
    ELSE strs[1] \o sep \o Join(Tail(strs), sep)

\* Lines 93-100.
GetTitle(article) ==
    IF Has(article, "title") /\ Has(article, "book_title") /\ Truthy(article.title)
    THEN article.title
    ELSE IF Has(article, "book_title") /\ ~Has(article, "title") /\ Truthy(article.book_title)
    THEN Str(StripNL(article.book_title.val))
    ELSE IF Has(article, "title") /\ Truthy(article.title)
    THEN Str(StripNL(article.title.val))
    ELSE None

\* Lines 103-106.
GetAuthor(article) ==
    IF Has(article, "author") /\ Has(article, "authors") /\ Truthy(article.author)
    THEN article.author
    ELSE IF Has(article, "authors") /\ Truthy(article.authors) THEN article.authors
    ELSE IF Has(article, "author") /\ Truthy(article.author) THEN article.author
    ELSE None

\* Lines 109-111.
GetDate(article) ==
    IF Has(article, "date_published") /\ Truthy(article.date_published)
       /\ Len(article.date_published.val) >= 10
    THEN Str(Prefix(article.date_published.val, 10))
    ELSE IF Has(article, "published") /\ Truthy(article.published)
            /\ Len(article.published.val) >= 16
    THEN Str(Prefix(article.published.val, 16))
    ELSE None

\* Lines 114-117.
GetUrl(article) ==
    IF Has(article, "link") /\ Truthy(article.link) THEN article.link
    ELSE IF Has(article, "url") /\ Truthy(article.url) THEN article.url
    ELSE IF Has(article, "doi") /\ Truthy(article.doi) THEN article.doi
    ELSE None

\* Lines 120-123: [exc, value]; val['term'] raises KeyError on an item without 'term'.
GetTags(article) ==
    IF Has(article, "tags") /\ Truthy(article.tags)
    THEN IF article.tags.type = "list"
         THEN IF \E j \in 1..Len(article.tags.val) : ~Has(article.tags.val[j], "term")
              THEN [exc |-> "KeyError", value |-> None]
              ELSE [exc |-> "",
                    value |-> Str(Join([j \in 1..Len(article.tags.val) |->
                                           article.tags.val[j].term], ", "))]
         ELSE IF article.tags.type = "str"
              THEN [exc |-> "", value |-> article.tags]
              ELSE [exc |-> "", value |-> None]
    ELSE [exc |-> "", value |-> None]

\* Lines 126-128: text present and non-empty.
HasText(article) == Has(article, "text") /\ Truthy(article.text)

\* extract_info_from_article: exc is "" on a normal return of the 6-tuple.
extract_info_from_article(article) ==
    LET tags == GetTags(article)
    IN  IF tags.exc # ""
        THEN [exc |-> tags.exc, msg |-> "term", info |-> <<>>]
        ELSE IF ~HasText(article)
        THEN [exc |-> "MissingDataException", msg |-> "Entry has no text.", info |-> <<>>]
        ELSE [exc |-> "", msg |-> "",
              info |-> <<GetTitle(article), GetAuthor(article), GetDate(article),
                         GetUrl(article), tags.value, article.text>>]

\* ----------------------------------------------------------- get_alignment_texts
\* Lines 137-150: the source of a record without 'source'.  kind is "assign" (the
\* record goes on with that source), "skip" (continue), or the exception raised.
FallbackSource(entry) ==
    IF Has(entry, "url") /\ PyEq(entry.url, "https://www.cold-takes.com/")
    THEN [kind |-> "assign", source |-> "Cold Takes", msg |-> ""]
    ELSE IF Has(entry, "question") /\ Has(entry, "answer")
    THEN [kind |-> "skip", source |-> "printouts", msg |-> ""]
    ELSE IF Has(entry, "article_url") /\ PyEq(entry.article_url, "https://www.gwern.net")
    THEN [kind |-> "assign", source |-> "gwern.net", msg |-> ""]
    ELSE IF Has(entry, "url") /\ PyEq(entry.url, "https://generative.ink/posts/")
    THEN [kind |-> "assign", source |-> "generative.ink", msg |-> ""]
    ELSE IF Has(entry, "url") /\ entry.url.type = "null"
    THEN [kind |-> "TypeError", source |-> "", msg |-> "'NoneType' object is not subscriptable"]
    ELSE IF Has(entry, "url") /\ PyEq(Str(Prefix(entry.url.val, 24)), "https://greaterwrong.com")
    THEN [kind |-> "assign", source |-> "greaterwrong.com", msg |-> ""]
    ELSE [kind |-> "MissingDataException", source |-> "", msg |-> "Entry has no source."]

\* Lines 137-150 with the record's own source.
SourceOf(entry) ==
    IF Has(entry, "source")
    THEN [kind |-> "assign", source |-> entry.source.val, msg |-> ""]
    ELSE FallbackSource(entry)

\* Lines 166-172 without line 172: the trailing ", " is kept.
SignatureKeepingSeparator(title, author, date_published, url) ==
    LET s1 == IF Truthy(title) THEN "Title: " \o title.val \o ", " ELSE ""
        s2 == IF Truthy(author) THEN s1 \o "Author: " \o author.val \o ", " ELSE s1
        s3 == IF Truthy(date_published)
              THEN s2 \o "Date published: " \o date_published.val \o ", " ELSE s2
    IN  IF Truthy(url) THEN s3 \o "URL: " \o url.val \o ", " ELSE s3

\* Lines 166-172.
Signature(title, author, date_published, url) ==
    LET s1 == IF Truthy(title) THEN "Title: " \o title.val \o ", " ELSE ""
        s2 == IF Truthy(author) THEN s1 \o "Author: " \o author.val \o ", " ELSE s1
        s3 == IF Truthy(date_published)
              THEN s2 \o "Date published: " \o date_published.val \o ", " ELSE s2
        s4 == IF Truthy(url) THEN s3 \o "URL: " \o url.val \o ", " ELSE s3
    IN  IF s4 # "" THEN SubSeq(s4, 1, Len(s4) - 2) ELSE s4

\* Line 159 on a defaultdict(int).
Increment(counts, key) ==
    IF key \in DOMAIN counts
    THEN [counts EXCEPT ![key] = @ + 1]
    ELSE [k \in DOMAIN counts \cup {key} |-> IF k = key THEN 1 ELSE counts[k]]

\* Lines 185-188.
Tally(counts, reason) == Increment(counts, reason)

\* Line 157.
FilteredOut(source) ==
    /\ custom_sources.type # "null"
    /\ \A j \in 1..Len(custom_sources.val) : custom_sources.val[j] # source


\* random.random() (line 152), in percent; fraction_of_articles_to_use likewise.
RandomSamples == {0, 99}
Fractions == {50, 100}

\* custom_sources: None, or an allow-list.
NoSources == [type |-> "null", val |-> <<>>]
CustomSourcesChoices == <<NoSources, List(<<"lesswrong", "Cold Takes", "ebook">>)>>

\* error_count_dict as the module defines it (lines 26-32).
InitialErrorCounts ==
    [reason \in {"Entry has no source.", "Entry has no title.", "Entry has no text.",
                 "Entry has no URL.", "Entry has wrong citation level."} |-> 0]

\* get_embeddings has not been called.
EmbedIdle ==
    /\ embeddings = [set |-> FALSE, rows |-> <<>>]
    /\ futures = <<>>
    /\ tpc = <<>>
    /\ attempts = <<>>
    /\ waited = <<>>
    /\ requests = <<>>
    /\ order = <<>>
    /\ num_completed = 0
    /\ mpc = "idle"

\* Dataset.__init__ (lines 48-73), before get_alignment_texts reads its first record.
LoadInit ==
    /\ record = 0
    /\ \E c \in 1..Len(CustomSourcesChoices) : custom_sources = CustomSourcesChoices[c]
    /\ fraction \in Fractions
    /\ rate_limit_per_minute = 3500
    /\ max_workers = 1
    /\ pos = 0
    /\ status = "running"
    /\ articles_count =
         IF custom_sources.type = "null" THEN <<>>
         ELSE [s \in {custom_sources.val[j] : j \in 1..Len(custom_sources.val)} |-> 0]
    /\ total_articles_count = 0
    /\ total_char_count = 0
    /\ total_word_count = 0
    /\ total_sentence_count = 0
    /\ total_block_count = 0
    /\ metadata = <<>>
    /\ embedding_strings = <<>>
    /\ signature = ""
    /\ error_count_dict = InitialErrorCounts
    /\ EmbedIdle

statsVars == <<total_char_count, total_word_count, total_sentence_count,
               total_block_count, metadata, embedding_strings, signature>>
countVars == <<articles_count, total_articles_count>>

\* Lines 159-188 for a record that passed the sampling and the allow-list.
CountAndExtract(entry, source) ==
    /\ articles_count' = Increment(articles_count, source)
    /\ total_articles_count' = total_articles_count + 1
    /\ LET r == extract_info_from_article(entry)
       IN  CASE r.exc = "MissingDataException" ->
                  /\ error_count_dict' = Tally(error_count_dict, r.msg)
                  /\ UNCHANGED <<status, statsVars>>
             [] r.exc = "KeyError" ->
                  /\ status' = "aborted"
                  /\ UNCHANGED <<statsVars, error_count_dict>>
             [] r.exc = "" ->
                  LET title == r.info[1]
                      author == r.info[2]
                      date_published == r.info[3]
                      url == r.info[4]
                      text == r.info[6].val
                      sig == Signature(title, author, date_published, url)
                      blocks == TokenSplitter_split(text, sig)
                  IN  /\ signature' = sig
                      /\ metadata' = Append(metadata, r.info)
                      /\ embedding_strings' = embedding_strings \o blocks
                      /\ total_char_count' = total_char_count + Len(text)
                      /\ total_word_count' = total_word_count + WordCount(text)
                      /\ total_sentence_count' =
                           total_sentence_count + Len(split_into_sentences(text))
                      /\ total_block_count' = total_block_count + Len(blocks)
                      /\ UNCHANGED <<status, error_count_dict>>

\* One iteration of the loop of get_alignment_texts (lines 135-188): the reader
\* yields a record, any of EntryKinds.
ProcessEntry ==
    /\ status = "running"
    /\ pos < MaxRecords
    /\ pos' = pos + 1
    /\ UNCHANGED <<confVars, embedVars>>
    /\ \E k \in 1..Len(EntryKinds) :
       LET entry == Entry(k)
           src == SourceOf(entry)
       IN  /\ record' = k
           /\ CASE src.kind = "skip" ->
                  UNCHANGED <<status, countVars, statsVars, error_count_dict>>
             [] src.kind = "MissingDataException" ->
                  /\ error_count_dict' = Tally(error_count_dict, src.msg)
                  /\ UNCHANGED <<status, countVars, statsVars>>
             [] src.kind = "TypeError" ->
                  /\ status' = "aborted"
                  /\ UNCHANGED <<countVars, statsVars, error_count_dict>>
             [] src.kind = "assign" ->
                  \E random_number \in RandomSamples :
                     IF random_number > fraction \/ FilteredOut(src.source)
                     THEN UNCHANGED <<status, countVars, statsVars, error_count_dict>>
                     ELSE CountAndExtract(entry, src.source)

\* The reader is exhausted (the file may end after any record): get_alignment_texts
\* returns.
FinishPass ==
    /\ status = "running"
    /\ status' = "done"
    /\ UNCHANGED <<confVars, embedVars, record, pos, countVars, statsVars, error_count_dict>>

LoadNext == ProcessEntry \/ FinishPass

\* One pass of get_alignment_texts over a corpus file.
LoadSpec == LoadInit /\ [][LoadNext]_vars


\* ===================================================== the loader's properties
RECURSIVE SumOver(_, _)
SumOver(counts, keys) ==
    IF keys = {} THEN 0
    ELSE LET k == CHOOSE x \in keys : TRUE
         IN  counts[k] + SumOver(counts, keys \ {k})

CountOf(counts, key) == IF key \in DOMAIN counts THEN counts[key] ELSE 0

\* The step read a record.
ReadsRecord == pos' = pos + 1

\* Nothing but the reader's position changed.
Untouched == UNCHANGED <<status, countVars, statsVars, error_count_dict>>

\* C5: the pass is never aborted by a record: no exception leaves the loop, and the
\* pass ends only by the reader being exhausted.
C5_PassNeverAborts == status # "aborted"

\* C6: a step that rejects a record for its missing text raises the tally
\* "Entry has no text." by exactly one and counts no article: the article counters,
\* the lists and the char/word/sentence/block counters are unchanged.
C6_NoTextNotCounted ==
    [][(ReadsRecord /\ ~HasText(Entry(record')) /\ error_count_dict' # error_count_dict)
         => /\ error_count_dict' =
                 [error_count_dict EXCEPT !["Entry has no text."] = @ + 1]
            /\ UNCHANGED <<countVars, statsVars>>]_vars

\* The sources the fallback rules of lines 138-148 assign.
FallbackSources == {"Cold Takes", "printouts", "gwern.net", "generative.ink", "greaterwrong.com"}

\* The record went through sampling, allow-list and extraction under source s: it
\* was sampled out or filtered out (nothing changes), or counted as an article of s.
ProcessedAs(s) ==
    IF FilteredOut(s) THEN Untouched
    ELSE \/ fraction < 100 /\ Untouched
         \/ /\ total_articles_count' = total_articles_count + 1
            /\ CountOf(articles_count', s) = CountOf(articles_count, s) + 1

\* The record was rejected for its missing source, and the pass goes on.
TalliedNoSource ==
    /\ error_count_dict' = [error_count_dict EXCEPT !["Entry has no source."] = @ + 1]
    /\ UNCHANGED <<status, countVars, statsVars>>

\* C7: every record without 'source' is either given a source by a fallback rule and
\* processed under it, or rejected with "Entry has no source." and tallied.
C7_SourcelessProcessedOrTallied ==
    [][(ReadsRecord /\ ~Has(Entry(record'), "source"))
         => \/ \E s \in FallbackSources : ProcessedAs(s) /\ ~TalliedNoSource
            \/ TalliedNoSource]_vars

\* The "Key: value" pairs of the provenance fields of a metadata tuple that are present.
PresentPairs(m) ==
    LET all == <<[key |-> "Title", v |-> m[1]], [key |-> "Author", v |-> m[2]],
                 [key |-> "Date published", v |-> m[3]], [key |-> "URL", v |-> m[4]]>>
        IsPresent(p) == Truthy(p.v)
        present == SelectSeq(all, IsPresent)
    IN  [j \in 1..Len(present) |-> present[j].key \o ": " \o present[j].v.val]

\* sub occurs in s
Contains(s, sub) ==
    \E j \in 1..(Len(s) - Len(sub) + 1) : SubSeq(s, j, j + Len(sub) - 1) = sub

\* C8: the signature of the last article is its present title/author/date/url pairs
\* in that order joined by ", ", without a trailing separator and without tags; it
\* is empty when none of the four is present.
C8_SignatureIsJoinedPairs ==
    Len(metadata) > 0 =>
       LET m == metadata[Len(metadata)]
       IN  /\ signature = Join(PresentPairs(m), ", ")
           /\ (Len(PresentPairs(m)) = 0 => signature = "")
           /\ ~Contains(signature, "Tags")
           /\ (Truthy(m[5]) => ~Contains(signature, m[5].val))

\* C8's case: title and url present, author and date absent, tags present.
C8_Witness ==
    /\ Len(metadata) > 0
    /\ Truthy(metadata[Len(metadata)][5])
    /\ ~Truthy(metadata[Len(metadata)][2])
    /\ signature = "Title: On AI, URL: https://x.org/p"

\* C9: the counters agree with the lists they summarise.
C9_CountersAgree ==
    /\ total_block_count = Len(embedding_strings)
    /\ total_articles_count = Len(metadata)
    /\ total_articles_count = SumOver(articles_count, DOMAIN articles_count)


\* ================================================================ get_embeddings
\* stop_after_attempt(5), wait_random_exponential(min=1, max=20) (line 192).
MaxAttempts == 5
WaitMin == 1
WaitMax == 20
\* The default of get_embedding_at_index's delay_in_seconds (line 193): line 205
\* submits (text, i) only, so this is what line 194 sleeps.
DelayArgument == 0
MicrosPerSecond == 1000000

\* self.delay_in_seconds = 60.0 / self.rate_limit_per_minute (line 51), in microseconds.
delay_in_seconds == (60 * MicrosPerSecond) \div rate_limit_per_minute

RateLimits == {60, 3500}

N == Len(embedding_strings)
Indices == 0..(N - 1)
\* embedding_strings[i] with Python's index
TextAt(i) == embedding_strings[i + 1]

\* The blocks get_embeddings is given.
BlockText(j) == "block " \o ToString(j)

\* A row of np.zeros((N, LEN_EMBEDDINGS)).
ZeroRow == [of |-> ""]
\* embedding["data"][0]["embedding"]: the vector the service returns for `text`.
ServiceEmbedding(text) == [of |-> text]

\* stop_after_attempt(4): the retry wrapper gives up one attempt early.
StopAfterFourAttempts(attempt_number) == attempt_number >= MaxAttempts - 1
\* stop_after_attempt(6): the retry wrapper allows one attempt too many.
StopAfterSixAttempts(attempt_number) == attempt_number >= MaxAttempts + 1
\* stop_after_attempt(5)
StopAfterAttempt(attempt_number) == attempt_number >= MaxAttempts

Max(a, b) == IF a > b THEN a ELSE b

\* wait_random_exponential(min=1, max=20) after failed attempt number a: a random
\* wait between min and min(max, 2^(a-1)) seconds; its two ends, in microseconds.
BackoffWaits(a) ==
    {WaitMin * MicrosPerSecond,
     Max(WaitMin, Min(2 ^ (a - 1), WaitMax)) * MicrosPerSecond}

\* Line 199 returning a fixed index instead of its own.
TaskResultAtRowZero(i, embedding) == <<0, embedding>>
\* return i, embedding["data"][0]["embedding"] (line 199)
TaskResult(i, embedding) == <<i, embedding>>

Pending == [state |-> "pending", exc |-> "", result |-> <<>>]
\* The work items submitted to the executor.
Tasks == DOMAIN tpc
Running == {i \in Tasks : tpc[i] \in {"sleep", "request"}}
Queued == {i \in Tasks : tpc[i] = "queued"}
Yielded == {order[j] : j \in 1..Len(order)}
Finished(i) == futures[i].state = "finished"

\* A Dataset holding its blocks, before get_embeddings is called.  get_embeddings
\* reads embedding_strings only; the loader's other fields stay as they are.
EmbedInit ==
    /\ \E n \in 0..MaxBlocks : embedding_strings = [j \in 1..n |-> BlockText(j)]
    /\ rate_limit_per_minute \in RateLimits
    /\ max_workers \in 1..MaxWorkers
    /\ custom_sources = NoSources
    /\ fraction = 100
    /\ record = 0
    /\ pos = 0
    /\ status = "done"
    /\ articles_count = <<>>
    /\ total_articles_count = 0
    /\ total_char_count = 0
    /\ total_word_count = 0
    /\ total_sentence_count = 0
    /\ total_block_count = N
    /\ metadata = <<>>
    /\ signature = ""
    /\ error_count_dict = InitialErrorCounts
    /\ EmbedIdle

fixedVars == <<confVars, loadVars, embedding_strings>>

\* Lines 201-206: the matrix of zeros is stored on the Dataset and one future per
\* block is submitted, in the order of embedding_strings.
StartGetEmbeddings ==
    /\ mpc = "idle"
    /\ embeddings' = [set |-> TRUE, rows |-> [i \in Indices |-> ZeroRow]]
    /\ futures' = [i \in Indices |-> Pending]
    /\ tpc' = [i \in Indices |-> "queued"]
    /\ attempts' = [i \in Indices |-> 0]
    /\ waited' = [i \in Indices |-> 0]
    /\ requests' = [i \in Indices |-> 0]
    /\ order' = <<>>
    /\ num_completed' = 0
    /\ mpc' = "collect"
    /\ UNCHANGED fixedVars

\* A free worker thread takes the oldest queued work item and enters the retry
\* wrapper: first attempt.
Dequeue(i) ==
    /\ mpc \in {"collect", "shutdown"}
    /\ i \in Queued
    /\ \A j \in Queued : i <= j
    /\ Cardinality(Running) < max_workers
    /\ tpc' = [tpc EXCEPT ![i] = "sleep"]
    /\ attempts' = [attempts EXCEPT ![i] = 1]
    /\ UNCHANGED <<fixedVars, embeddings, futures, waited, requests, order,
                   num_completed, mpc>>

\* time.sleep(delay_in_seconds) (line 194), with the argument the task was given.
Sleep(i) ==
    /\ i \in Tasks
    /\ tpc[i] = "sleep"
    /\ waited' = [waited EXCEPT ![i] = @ + DelayArgument]
    /\ tpc' = [tpc EXCEPT ![i] = "request"]
    /\ UNCHANGED <<fixedVars, embeddings, futures, attempts, requests, order,
                   num_completed, mpc>>

\* openai.Embedding.create returns (lines 195-199): the future holds (i, embedding).
RequestSucceeds(i) ==
    /\ i \in Tasks
    /\ tpc[i] = "request"
    /\ requests' = [requests EXCEPT ![i] = @ + 1]
    /\ waited' = [waited EXCEPT ![i] = 0]
    /\ futures' = [futures EXCEPT ![i] =
                     [state |-> "finished", exc |-> "",
                      result |-> TaskResult(i, ServiceEmbedding(TextAt(i)))]]
    /\ tpc' = [tpc EXCEPT ![i] = "done"]
    /\ UNCHANGED <<fixedVars, embeddings, attempts, order, num_completed, mpc>>

\* openai.Embedding.create raises: the retry wrapper (line 192) stops after the
\* last attempt and the future holds the exception, or waits and calls again.
RequestFails(i) ==
    /\ i \in Tasks
    /\ tpc[i] = "request"
    /\ requests' = [requests EXCEPT ![i] = @ + 1]
    /\ IF StopAfterAttempt(attempts[i])
       THEN /\ futures' = [futures EXCEPT ![i] =
                             [state |-> "finished", exc |-> "RetryError", result |-> <<>>]]
            /\ tpc' = [tpc EXCEPT ![i] = "done"]
            /\ waited' = [waited EXCEPT ![i] = 0]
            /\ UNCHANGED attempts
       ELSE /\ \E w \in BackoffWaits(attempts[i]) : waited' = [waited EXCEPT ![i] = w]
            /\ attempts' = [attempts EXCEPT ![i] = @ + 1]
            /\ tpc' = [tpc EXCEPT ![i] = "sleep"]
            /\ UNCHANGED futures
    /\ UNCHANGED <<fixedVars, embeddings, order, num_completed, mpc>>

\* One turn of the as_completed loop (lines 207-210) on a finished future not yet
\* yielded: its row is written, or future.result() raises and the `with` block is left.
Collect(i) ==
    /\ mpc = "collect"
    /\ i \in Indices \ Yielded
    /\ Finished(i)
    /\ order' = Append(order, i)
    /\ IF futures[i].exc = ""
       THEN /\ embeddings' = [embeddings EXCEPT
                                !.rows[futures[i].result[1]] = futures[i].result[2]]
            /\ num_completed' = num_completed + 1
            /\ UNCHANGED mpc
       ELSE /\ mpc' = "shutdown"
            /\ UNCHANGED <<embeddings, num_completed>>
    /\ UNCHANGED <<fixedVars, futures, tpc, attempts, waited, requests>>

\* as_completed is exhausted, the executor is shut down, get_embeddings returns (line 213).
Return ==
    /\ mpc = "collect"
    /\ Yielded = Indices
    /\ mpc' = "returned"
    /\ UNCHANGED <<fixedVars, embeddings, futures, tpc, attempts, waited, requests,
                   order, num_completed>>

\* ThreadPoolExecutor.__exit__ after the exception: shutdown(wait=True) returns once
\* every submitted work item has run, and the exception leaves get_embeddings.
Raise ==
    /\ mpc = "shutdown"
    /\ \A i \in Indices : Finished(i)
    /\ mpc' = "raised"
    /\ UNCHANGED <<fixedVars, embeddings, futures, tpc, attempts, waited, requests,
                   order, num_completed>>

EmbedStep ==
    \/ StartGetEmbeddings
    \/ \E i \in 0..(MaxBlocks - 1) :
          Dequeue(i) \/ Sleep(i) \/ RequestSucceeds(i) \/ RequestFails(i) \/ Collect(i)
    \/ Return
    \/ Raise

\* One call of get_embeddings.
EmbedSpec == EmbedInit /\ [][EmbedStep]_vars

\* The same, with every thread scheduled and every service call answered.
FairEmbedSpec == EmbedSpec /\ WF_vars(EmbedStep)


\* ============================================== the properties of get_embeddings
\* Row i is the vector of block i.
RowFilled(i) == embeddings.rows[i].of = TextAt(i)

\* C1: the matrix has exactly N rows; every future as_completed has yielded with a
\* result has its vector in its own row, in whatever order the futures completed;
\* and when get_embeddings has returned every row i is the vector of block i.
C1_RowsAlignedWithInput ==
    /\ embeddings.set => DOMAIN embeddings.rows = Indices
    /\ \A j \in 1..Len(order) :
          futures[order[j]].exc = ""
             => embeddings.rows[order[j]] = futures[order[j]].result[2]
    /\ mpc = "returned" => \A i \in Indices : RowFilled(i)

\* C1's case: two blocks, the second one's request completed first.
C1_Witness ==
    /\ mpc = "returned"
    /\ order = <<1, 0>>
    /\ \A i \in Indices : RowFilled(i)

\* C2: a block that failed on all its attempts keeps get_embeddings from returning,
\* and once the failure has left get_embeddings the Dataset exposes no matrix with a
\* never-filled row of zeros in it.
C2_FailureLeavesNoPartialMatrix ==
    /\ (\E i \in Tasks : futures[i].exc = "RetryError") => mpc # "returned"
    /\ mpc = "raised" => ~(embeddings.set /\ \E i \in Indices : embeddings.rows[i] = ZeroRow)

\* C3: a request is given up only after MaxAttempts failures, so a block whose
\* requests fail at most MaxAttempts - 1 times in a row gets its vector, at its own
\* index; the call raises only if some block failed MaxAttempts times; a row holds
\* zeros or its own block's vector, whatever the other blocks' failures; and the
\* matrix returned is complete.
C3_RetriedUntilSuccess ==
    /\ \A i \in Tasks :
          /\ requests[i] <= MaxAttempts
          /\ futures[i].exc = "RetryError" => requests[i] = MaxAttempts
          /\ (Finished(i) /\ futures[i].exc = "")
                => futures[i].result = <<i, [of |-> TextAt(i)]>>
          /\ embeddings.rows[i] = ZeroRow \/ RowFilled(i)
          /\ mpc = "returned" => RowFilled(i)
    /\ mpc \in {"shutdown", "raised"}
          => \E i \in Tasks : futures[i].exc = "RetryError" /\ requests[i] = MaxAttempts

\* C3's case: block 0 failed four times and succeeded on the fifth attempt, block 1
\* succeeded at once, and the matrix returned is complete.
C3_Witness ==
    /\ mpc = "returned"
    /\ N = 2
    /\ requests[0] = MaxAttempts
    /\ requests[1] = 1
    /\ \A i \in Indices : RowFilled(i)

\* C4: a worker about to send a request has waited at least delay_in_seconds
\* (60 / rate_limit_per_minute) since its previous request.
C4_EveryRequestWaitsTheDelay ==
    \A i \in Tasks : tpc[i] = "request" => waited[i] >= delay_in_seconds

RECURSIVE TotalRequests(_)
TotalRequests(n) == IF n = 0 THEN 0 ELSE requests[n - 1] + TotalRequests(n - 1)

\* C10: get_embeddings ends, by returning or by raising; no block is requested more
\* than MaxAttempts times; it returns only after all N results were collected; and
\* when it raises, every submitted request has run to its result or to the end of
\* its retries: none was cancelled.
C10_Terminates ==
    /\ [](\A i \in Tasks : requests[i] <= MaxAttempts)
    /\ [](mpc # "idle" => TotalRequests(N) <= MaxAttempts * N)
    /\ [](mpc = "returned" => Yielded = Indices /\ num_completed = N)
    /\ [](mpc = "raised" =>
            \A i \in Indices :
               /\ Finished(i)
               /\ requests[i] >= 1
               /\ futures[i].exc = "" \/ requests[i] = MaxAttempts)
    /\ <>(mpc \in {"returned", "raised"})

\* C10's case: one worker; block 0 exhausted its attempts and the call raised, after
\* block 1's request, never collected, was still retried until it succeeded.
C10_Witness ==
    /\ mpc = "raised"
    /\ N = 2
    /\ max_workers = 1
    /\ order = <<0>>
    /\ futures[1].exc = ""
    /\ requests[1] = 2

=============================================================================
